---- MODULE Spec2Model ----
(***************************************************************************)
(* Model of the mailbox terminal client: the typed IMAP session            *)
(* (fetch/connection.rs), the initial load done by Tui::new, the message   *)
(* parser adapter (fetch/parser.rs) and the navigation state machine with  *)
(* its render / read-event / update loop (tui/app.rs, tui/writer.rs,       *)
(* tui/states.rs).                                                         *)
(***************************************************************************)
EXTENDS Integers, Sequences, FiniteSets, TLC

(***************************************************************************)
(* Bounds of the model and program constants.                              *)
(***************************************************************************)
\* Largest uid of the small mailboxes of the load specification.
MaxUid == 3
\* The large mailboxes of the load specification hold up to Limit + MaxExtra ids.
MaxExtra == 2
\* The mailboxes of the navigation specification hold 0..MaxMails messages.
MaxMails == 2
\* Total number of characters a draft may hold before typing is cut off.
MaxText == 2
\* `uids.iter().take(20)` in Tui::new.
Limit == 20

(***************************************************************************)
(* Generic helpers.                                                        *)
(***************************************************************************)
Min(a, b) == IF a < b THEN a ELSE b

Range(s) == {s[i] : i \in DOMAIN s}

Some(x) == <<x>>

None == <<>>

\* Iterator::take(n) on a sequence.
Take(s, n) == SubSeq(s, 1, Min(n, Len(s)))

\* All orders in which the elements of S can be listed, each once.
Perms(S) ==
    {f \in [1..Cardinality(S) -> S] : \A i, j \in DOMAIN f : f[i] = f[j] => i = j}

RECURSIVE Ascending(_)
\* The elements of a set of numbers, smallest first.
Ascending(S) ==
    IF S = {} THEN <<>>
    ELSE LET m == CHOOSE x \in S : \A y \in S : x <= y
         IN <<m>> \o Ascending(S \ {m})

RECURSIVE InsertSorted(_, _)
InsertSorted(x, s) ==
    IF s = <<>> THEN <<x>>
    ELSE IF x <= Head(s) THEN <<x>> \o s
    ELSE <<Head(s)>> \o InsertSorted(x, Tail(s))

RECURSIVE sort_unstable(_)
\* slice::sort_unstable on u32: ascending order, duplicates kept.
sort_unstable(s) ==
    IF s = <<>> THEN <<>> ELSE InsertSorted(Head(s), sort_unstable(Tail(s)))

\* Vec::reverse.
reverse(s) == [i \in 1..Len(s) |-> s[Len(s) + 1 - i]]

(***************************************************************************)
(* The server side: a mailbox is a set of uids, each with one stored       *)
(* message.  A stored message is described by what the MIME parser makes   *)
(* of it: its structure and the shape of the headers the client reads.     *)
(***************************************************************************)
GoodPayload(u) ==
    [content |-> u, structure |-> "message",
     subject |-> "text", date |-> "datetime", from |-> "address"]

\* The ways one stored message may deviate from a well-formed one: the parser
\* finds no message in it, a message without any part, a first part without
\* Subject, or a first part without any header field.
Defects(u) ==
    { [GoodPayload(u) EXCEPT !.structure = "none"],
      [GoodPayload(u) EXCEPT !.structure = "noparts"],
      [GoodPayload(u) EXCEPT !.subject = "absent"],
      [GoodPayload(u) EXCEPT !.subject = "absent", !.date = "absent",
                             !.from = "absent"] }

\* The number of header fields the parsed structure of a payload carries.
HeaderFields(p) ==
    IF p.structure # "message" THEN 0
    ELSE Cardinality({h \in {"subject", "date", "from"} : p[h] # "absent"})

\* The stores of a mailbox: every message well formed, or exactly one deviating.
Stores(mb) ==
    LET good == [u \in mb |-> GoodPayload(u)]
    IN {good} \cup UNION {{[good EXCEPT ![d] = p] : p \in Defects(d)} : d \in mb}

\* Every subset of 1..MaxUid, and intervals of about Limit ids.
LoadMailboxes ==
    (SUBSET (1..MaxUid))
    \cup {lo..hi : lo \in 1..2, hi \in (Limit - 1)..(Limit + MaxExtra)}

NavMailboxes == {1..n : n \in 0..MaxMails}

\* The orders in which the server may list the ids of a search reply.
ReplyOrders(mb) ==
    IF Cardinality(mb) <= MaxUid \/ Cardinality(mb) <= MaxMails THEN Perms(mb)
    ELSE LET asc == Ascending(mb)
             odd == SelectSeq(asc, LAMBDA x : x % 2 = 1)
             even == SelectSeq(asc, LAMBDA x : x % 2 = 0)
         IN {asc, reverse(asc), even \o odd}

(***************************************************************************)
(* State.                                                                  *)
(***************************************************************************)
VARIABLES
    mailbox,            \* server: the uids of INBOX
    store,              \* server: uid -> stored message
    pc,                 \* position of the program
    session,            \* phase of the ImapSession value held by Tui::new
    sent,               \* requests sent to the server so far, oldest first
    response,           \* the server response received last
    uids,               \* Tui::new: local `uids`
    first_email_bodies, \* Tui::new: local `first_email_bodies`, <<uid, body>> pairs
    err,                \* the error Tui::new or Tui::run returned, <<>> when none
    emails,             \* Tui.emails
    mode,               \* Tui.mode
    current_id,         \* Tui.current_id
    open_email_id,      \* Tui.open_email_id
    running,            \* Tui.running
    terminal,           \* terminal mode set by ratatui::init / ratatui::restore
    frame,              \* the regions drawn by the last render, <<>> once outdated
    discarded,          \* the last event dropped a draft whose subject held text
    closed,             \* the last event was h, pressed in Reading on an open message
    ignored,            \* an event that is no key event was read and no frame drawn since
    steps,              \* the last two steps of the loop of Tui::run: "render", "read"
    check               \* locals of the test check_first_last

server == <<mailbox, store>>

loader == <<session, sent, response, uids, first_email_bodies>>

tui == <<emails, mode, current_id, open_email_id, running>>

history == <<discarded, closed, ignored, steps>>

vars == <<server, pc, loader, err, tui, terminal, frame, history, check>>

(***************************************************************************)
(* tui/writer.rs and tui/states.rs: the draft and the mode.                *)
(***************************************************************************)
\* tui_input::Input::default(): no text, edit cursor at 0.
Input_default == [value |-> <<>>, cursor |-> 0]

\* #[derive(Default)] Writer: three empty inputs, WriterState::None.
Writer_default ==
    [subject |-> Input_default, to |-> Input_default, body |-> Input_default,
     state |-> "None"]

Help == [tag |-> "Help"]

Reading == [tag |-> "Reading"]

Writing(w) == [tag |-> "Writing", writer |-> w]

new_writer_keeping == IF mode.tag = "Writing" THEN mode ELSE Writing(Writer_default)

\* TuiMode::new_writer: `*self = Self::Writing(Writer::default())`.
new_writer == Writing(Writer_default)

IsWriting == mode.tag = "Writing"

\* A draft field is capturing keystrokes.
FieldActive == IsWriting /\ mode.writer.state # "None"

DraftLen(w) == Len(w.subject.value) + Len(w.to.value) + Len(w.body.value)

\* The locals of the test check_first_last before it ran, and whether the mailbox
\* changed while it ran.
Check_default ==
    [mails |-> <<>>, first_single |-> None, last_single |-> None, changed |-> FALSE]

(***************************************************************************)
(* Initial states.  Nothing has run: Tui::new is about to be called.       *)
(***************************************************************************)
InitWith(mailboxes) ==
    /\ mailbox \in mailboxes
    /\ store \in Stores(mailbox)
    /\ pc = "new_credentials"
    /\ session = "absent"
    /\ sent = <<>>
    /\ response = [op |-> "none", ok |-> TRUE, ids |-> <<>>, results |-> <<>>]
    /\ uids = <<>>
    /\ first_email_bodies = <<>>
    /\ err = None
    /\ emails = <<>>
    /\ mode = Help
    /\ current_id = 0
    /\ open_email_id = None
    /\ running = FALSE
    /\ terminal = "cooked"
    /\ frame = <<>>
    /\ discarded = FALSE
    /\ closed = FALSE
    /\ ignored = FALSE
    /\ steps = <<>>
    /\ check = Check_default

Init == InitWith(NavMailboxes)

InitLoad == InitWith(LoadMailboxes)

(***************************************************************************)
(* Results and requests.                                                   *)
(***************************************************************************)
Ok(v) == [ok |-> TRUE, val |-> v]

Err(e) == [ok |-> FALSE, err |-> e]

\* One request as it went to the server, with the outcome the client made of it.
Request(op, uid, res) == [op |-> op, uid |-> uid, res |-> res]

Outcome(r) == IF r.ok THEN "ok" ELSE r.err

FetchRequests == SelectSeq(sent, LAMBDA q : q.op = "fetch")

\* The uids of the fetch requests sent so far, oldest first.
FetchedUids == [i \in 1..Len(FetchRequests) |-> FetchRequests[i].uid]

(***************************************************************************)
(* fetch/connection.rs: the typed session.                                 *)
(***************************************************************************)
\* What uid_fetch(uid) may bring back: a protocol error, no result, or one
\* result whose body is missing, is not UTF-8, or is the stored message.
FetchResponses(u) ==
    {[op |-> "fetch", ok |-> FALSE, ids |-> <<>>, results |-> <<>>],
     [op |-> "fetch", ok |-> TRUE, ids |-> <<>>, results |-> <<>>]}
    \cup {[op |-> "fetch", ok |-> TRUE, ids |-> <<>>, results |-> <<[body |-> b]>>] :
            b \in {None} \cup {Some([utf8 |-> x, payload |-> store[u]]) : x \in BOOLEAN}}

\* What uid_search("ALL") may bring back: a protocol error or the ids in some order.
SearchResponses ==
    {[op |-> "search", ok |-> FALSE, ids |-> <<>>, results |-> <<>>]}
    \cup {[op |-> "search", ok |-> TRUE, ids |-> r, results |-> <<>>] :
            r \in ReplyOrders(mailbox)}

\* ImapSession<None>::with_credentials: TLS connector, connect, login.
with_credentials(outcome) ==
    CASE outcome = "tls" -> Err("TlsConnection")
      [] outcome = "connect" -> Err("ImapConnection")
      [] outcome = "login" -> Err("ImapConnection")
      [] OTHER -> Ok("None")

select_mailbox_unchecked(selected) == Ok("MailboxSelected")

\* ImapSession<None>::select_mailbox: the session is consumed; only a successful
\* select yields an ImapSession<MailboxSelected>.
select_mailbox(selected) ==
    IF selected THEN Ok("MailboxSelected") ELSE Err("InvalidMailboxName")

get_uids_ascending(resp) ==
    IF ~resp.ok THEN Err("ImapFetch") ELSE Ok(sort_unstable(resp.ids))

\* ImapSession<MailboxSelected>::get_uids: collect, sort_unstable, reverse.
get_uids(resp) ==
    IF ~resp.ok THEN Err("ImapFetch") ELSE Ok(reverse(sort_unstable(resp.ids)))

get_email_body_lossy(mail) ==
    IF mail.body = None THEN Err("NoBody") ELSE Ok(mail.body[1].payload)

\* get_email_body: the body of one fetch result as text.
get_email_body(mail) ==
    IF mail.body = None THEN Err("NoBody")
    ELSE IF ~mail.body[1].utf8 THEN Err("InvalidBody")
    ELSE Ok(mail.body[1].payload)

get_mail_from_uid_body_required(resp) ==
    IF ~resp.ok THEN Err("ImapFetch")
    ELSE IF resp.results = <<>> \/ Head(resp.results).body = None THEN Err("NoEmail")
    ELSE get_email_body(Head(resp.results))

\* ImapSession<MailboxSelected>::get_mail_from_uid, given the server's response.
get_mail_from_uid(resp) ==
    IF ~resp.ok THEN Err("ImapFetch")
    ELSE IF resp.results = <<>> THEN Err("NoEmail")
    ELSE get_email_body(Head(resp.results))

(***************************************************************************)
(* fetch/parser.rs: the parser adapter.                                    *)
(***************************************************************************)
Email(uid, payload) ==
    [uid |-> uid, content |-> payload.content,
     subject |-> payload.subject, date |-> payload.date, from |-> payload.from]

try_from_headers_required(uid, payload) ==
    IF payload.structure = "none" THEN Err("ParseFailure")
    ELSE IF HeaderFields(payload) = 0 THEN Err("NoHeaders")
    ELSE Ok(Email(uid, payload))

\* impl TryFrom<(u32, &[u8])> for Email.
try_from(uid, payload) ==
    IF payload.structure = "none" THEN Err("ParseFailure")
    ELSE IF payload.structure = "noparts" THEN Err("NoHeaders")
    ELSE Ok(Email(uid, payload))

(***************************************************************************)
(* tui/app.rs, Tui::new: the initial load.                                 *)
(***************************************************************************)
collect_skipping(acc, r) == IF r.ok THEN Ok(Append(acc, r.val)) ELSE Ok(acc)

\* One step of `.collect::<Result<Vec<_>>>()`: the first Err ends the collection
\* and is its result.
collect(acc, r) == IF r.ok THEN Ok(Append(acc, r.val)) ELSE r

first_uids_all(u) == u

\* `uids.iter().take(20)`: the ids Tui::new fetches.
first_uids(u) == Take(u, Limit)

RECURSIVE parse_all_reversed(_, _)
parse_all_reversed(bodies, acc) ==
    IF bodies = <<>> THEN Ok(acc)
    ELSE LET r == try_from(Head(bodies)[1], Head(bodies)[2])
         IN IF r.ok THEN parse_all_reversed(Tail(bodies), <<r.val>> \o acc) ELSE r

RECURSIVE parse_all(_, _)
\* `first_email_bodies.iter().map(..).collect::<Result<Vec<_>>>()`.
parse_all(bodies, acc) ==
    IF bodies = <<>> THEN Ok(acc)
    ELSE LET r == collect(acc, try_from(Head(bodies)[1], Head(bodies)[2]))
         IN IF r.ok THEN parse_all(Tail(bodies), r.val) ELSE r

\* #[derive(Default)] Tui, as used by `..Self::default()`: TuiMode's #[default] is
\* Help, the cursor is 0, no message is open, the loop is not running.
Tui_default_reading ==
    [mode |-> Reading, current_id |-> 0, open_email_id |-> None, running |-> FALSE]

Tui_default ==
    [mode |-> Help, current_id |-> 0, open_email_id |-> None, running |-> FALSE]

NewFails_unnoticed(e) ==
    /\ pc' = "ready"
    /\ err' = Some(e)
    /\ session' = IF session = "absent" THEN "absent" ELSE "dropped"

\* Tui::new returns Err(e): its locals, the session among them, are dropped and
\* no Tui exists.
NewFails(e) ==
    /\ pc' = "new_failed"
    /\ err' = Some(e)
    /\ session' = IF session = "absent" THEN "absent" ELSE "dropped"

\* `Credentials::load()?`
NewCredentials ==
    /\ pc = "new_credentials"
    /\ \E loaded \in BOOLEAN :
         IF loaded
         THEN pc' = "new_connect" /\ UNCHANGED <<err, session>>
         ELSE NewFails("Credentials")
    /\ UNCHANGED <<server, sent, response, uids, first_email_bodies, tui,
                   terminal, frame, history, check>>

\* `ImapSession::with_credentials(&credentials)?`
NewConnect ==
    /\ pc = "new_connect"
    /\ \E outcome \in {"ok", "tls", "connect", "login"} :
         LET r == with_credentials(outcome)
         IN /\ sent' = IF outcome \in {"ok", "login"}
                       THEN Append(sent, Request("login", 0, Outcome(r)))
                       ELSE sent
            /\ IF r.ok
               THEN pc' = "new_select" /\ session' = r.val /\ UNCHANGED err
               ELSE NewFails(r.err)
    /\ UNCHANGED <<server, response, uids, first_email_bodies, tui,
                   terminal, frame, history, check>>

\* `.select_mailbox("INBOX")?`
NewSelect ==
    /\ pc = "new_select"
    /\ session = "None"
    /\ \E selected \in BOOLEAN :
         LET r == select_mailbox(selected)
         IN /\ sent' = Append(sent, Request("select", 0,
                                            IF selected THEN "ok" ELSE "InvalidMailboxName"))
            /\ IF r.ok
               THEN pc' = "new_get_uids" /\ session' = r.val /\ UNCHANGED err
               ELSE NewFails(r.err)
    /\ UNCHANGED <<server, response, uids, first_email_bodies, tui,
                   terminal, frame, history, check>>

\* `let uids = session.get_uids()?;`
NewGetUids ==
    /\ pc = "new_get_uids"
    /\ session = "MailboxSelected"
    /\ \E resp \in SearchResponses :
         LET r == get_uids(resp)
         IN /\ response' = resp
            /\ sent' = Append(sent, Request("search", 0, Outcome(r)))
            /\ IF r.ok
               THEN pc' = "new_fetch" /\ uids' = r.val /\ UNCHANGED <<err, session>>
               ELSE NewFails(r.err) /\ UNCHANGED uids
    /\ UNCHANGED <<server, first_email_bodies, tui, terminal, frame, history, check>>

\* One element of `uids.iter().take(20).map(|uid| Ok((uid,
\* session.get_mail_from_uid(*uid)?))).collect()`: the next id is fetched and the
\* result collected.
NewFetch ==
    /\ pc = "new_fetch"
    /\ session = "MailboxSelected"
    /\ Len(FetchRequests) < Len(first_uids(uids))
    /\ LET uid == first_uids(uids)[Len(FetchRequests) + 1]
       IN \E resp \in FetchResponses(uid) :
            LET got == get_mail_from_uid(resp)
                r == collect(first_email_bodies,
                             IF got.ok THEN Ok(<<uid, got.val>>) ELSE got)
            IN /\ response' = resp
               /\ sent' = Append(sent, Request("fetch", uid, Outcome(got)))
               /\ IF r.ok
                  THEN /\ first_email_bodies' = r.val
                       /\ UNCHANGED <<pc, err, session>>
                  ELSE NewFails(r.err) /\ UNCHANGED first_email_bodies
    /\ UNCHANGED <<server, uids, tui, terminal, frame, history, check>>

\* Every id was fetched: the bodies are parsed and, when all parse, the Tui is built
\* with `Self { emails: first_emails, ..Self::default() }`; the session is dropped
\* when Tui::new returns.
NewParse ==
    /\ pc = "new_fetch"
    /\ Len(FetchRequests) >= Len(first_uids(uids))
    /\ LET r == parse_all(first_email_bodies, <<>>)
       IN IF r.ok
          THEN /\ emails' = r.val
               /\ mode' = Tui_default.mode
               /\ current_id' = Tui_default.current_id
               /\ open_email_id' = Tui_default.open_email_id
               /\ running' = Tui_default.running
               /\ pc' = "ready"
               /\ session' = "dropped"
               /\ UNCHANGED err
          ELSE NewFails(r.err) /\ UNCHANGED tui
    /\ UNCHANGED <<server, sent, response, uids, first_email_bodies,
                   terminal, frame, history, check>>

NextLoad ==
    \/ NewCredentials
    \/ NewConnect
    \/ NewSelect
    \/ NewGetUids
    \/ NewFetch
    \/ NewParse

SpecLoad == InitLoad /\ [][NextLoad]_vars

(***************************************************************************)
(* fetch/connection.rs: get_all_mails and the test check_first_last, which *)
(* compares it with get_uids and get_mail_from_uid on one selected         *)
(* session.  The INBOX is shared with the mail system: between two calls   *)
(* of the test a message may be delivered or removed.                      *)
(***************************************************************************)
TestMailboxes == SUBSET (1..MaxUid)

\* What fetch("1:*", QUERY) may bring back: a protocol error, or one result per
\* message in sequence-number order, which is ascending uid order, each with a
\* body that is missing, not UTF-8, or the stored message.
FetchAllResponses ==
    {[op |-> "fetch_all", ok |-> FALSE, ids |-> <<>>, results |-> <<>>]}
    \cup {[op |-> "fetch_all", ok |-> TRUE, ids |-> <<>>,
           results |-> [i \in 1..Cardinality(mailbox) |->
                          LET u == Ascending(mailbox)[i]
                          IN [body |-> IF shape[u] = "missing" THEN None
                                       ELSE Some([utf8 |-> shape[u] = "text",
                                                  payload |-> store[u]])]]] :
            shape \in [mailbox -> {"missing", "binary", "text"}]}

RECURSIVE bodies_of(_, _)
\* `.into_iter().map(get_email_body).collect()`.
bodies_of(results, acc) ==
    IF results = <<>> THEN Ok(acc)
    ELSE LET r == collect(acc, get_email_body(Head(results)))
         IN IF r.ok THEN bodies_of(Tail(results), r.val) ELSE r

get_all_mails_newest_first(resp) ==
    IF ~resp.ok THEN Err("ImapFetch") ELSE bodies_of(reverse(resp.results), <<>>)

\* ImapSession<MailboxSelected>::get_all_mails, given the server's response.
get_all_mails(resp) ==
    IF ~resp.ok THEN Err("ImapFetch") ELSE bodies_of(resp.results, <<>>)

\* The test starts on the session with_credentials returned.
InitTest ==
    /\ mailbox \in TestMailboxes
    /\ store \in Stores(mailbox)
    /\ pc = "test_select"
    /\ session = "None"
    /\ sent = <<Request("login", 0, "ok")>>
    /\ response = [op |-> "none", ok |-> TRUE, ids |-> <<>>, results |-> <<>>]
    /\ uids = <<>>
    /\ first_email_bodies = <<>>
    /\ err = None
    /\ emails = <<>>
    /\ mode = Help
    /\ current_id = 0
    /\ open_email_id = None
    /\ running = FALSE
    /\ terminal = "cooked"
    /\ frame = <<>>
    /\ discarded = FALSE
    /\ closed = FALSE
    /\ ignored = FALSE
    /\ steps = <<>>
    /\ check = Check_default

\* The test returns Err(e) through `?`.
TestFails(e) ==
    /\ pc' = "test_failed"
    /\ err' = Some(e)

\* `let mut inbox = imap_session.select_mailbox("INBOX")?;`
TestSelect ==
    /\ pc = "test_select"
    /\ session = "None"
    /\ \E selected \in BOOLEAN :
         LET r == select_mailbox(selected)
         IN /\ sent' = Append(sent, Request("select", 0, Outcome(r)))
            /\ IF r.ok
               THEN pc' = "test_get_all_mails" /\ session' = r.val /\ UNCHANGED err
               ELSE TestFails(r.err) /\ session' = "dropped"
    /\ UNCHANGED <<server, response, uids, first_email_bodies, tui, terminal, frame,
                   history, check>>

\* `let mails = inbox.get_all_mails()?;` and the two unwraps of first() and last(),
\* which panic on an empty list.
TestGetAllMails ==
    /\ pc = "test_get_all_mails"
    /\ session = "MailboxSelected"
    /\ \E resp \in FetchAllResponses :
         LET r == get_all_mails(resp)
         IN /\ response' = resp
            /\ sent' = Append(sent, Request("fetch_all", 0, Outcome(r)))
            /\ IF r.ok
               THEN /\ check' = [check EXCEPT !.mails = r.val]
                    /\ pc' = IF r.val = <<>> THEN "test_panicked" ELSE "test_get_uids"
                    /\ UNCHANGED err
               ELSE TestFails(r.err) /\ UNCHANGED check
    /\ UNCHANGED <<server, session, uids, first_email_bodies, tui, terminal, frame,
                   history>>

\* The mail system delivers a message to INBOX between get_all_mails and
\* get_uids: it gets the next uid.
Deliver ==
    /\ pc = "test_get_uids"
    /\ ~check.changed
    /\ LET new == 1 + CHOOSE m \in mailbox : \A u \in mailbox : u <= m
       IN /\ mailbox' = mailbox \cup {new}
          /\ store' = [u \in mailbox \cup {new} |->
                         IF u \in mailbox THEN store[u] ELSE GoodPayload(u)]
    /\ check' = [check EXCEPT !.changed = TRUE]
    /\ UNCHANGED <<pc, loader, err, tui, terminal, frame, history>>

\* Another client removes a message from INBOX between get_all_mails and
\* get_uids; at least one message stays.
Expunge ==
    /\ pc = "test_get_uids"
    /\ ~check.changed
    /\ Cardinality(mailbox) >= 2
    /\ \E gone \in mailbox :
         /\ mailbox' = mailbox \ {gone}
         /\ store' = [u \in mailbox \ {gone} |-> store[u]]
    /\ check' = [check EXCEPT !.changed = TRUE]
    /\ UNCHANGED <<pc, loader, err, tui, terminal, frame, history>>

\* `let mut uids = inbox.get_uids()?.into_iter().collect::<Vec<_>>();
\*  uids.sort_unstable();`
TestGetUids ==
    /\ pc = "test_get_uids"
    /\ \E resp \in SearchResponses :
         LET r == get_uids(resp)
         IN /\ response' = resp
            /\ sent' = Append(sent, Request("search", 0, Outcome(r)))
            /\ IF r.ok
               THEN /\ uids' = sort_unstable(r.val)
                    /\ pc' = "test_first_single"
                    /\ UNCHANGED err
               ELSE TestFails(r.err) /\ UNCHANGED uids
    /\ UNCHANGED <<server, session, first_email_bodies, tui, terminal, frame,
                   history, check>>

\* `inbox.get_mail_from_uid(*uids.first().unwrap())?` and, with which = "last",
\* `inbox.get_mail_from_uid(*uids.last().unwrap())?`.
TestSingle(which) ==
    /\ pc = IF which = "first" THEN "test_first_single" ELSE "test_last_single"
    /\ uids # <<>>
    /\ LET uid == IF which = "first" THEN uids[1] ELSE uids[Len(uids)]
       IN \E resp \in FetchResponses(uid) :
            LET r == get_mail_from_uid(resp)
            IN /\ response' = resp
               /\ sent' = Append(sent, Request("fetch", uid, Outcome(r)))
               /\ IF r.ok
                  THEN /\ check' = IF which = "first"
                                   THEN [check EXCEPT !.first_single = Some(r.val)]
                                   ELSE [check EXCEPT !.last_single = Some(r.val)]
                       /\ pc' = IF which = "first" THEN "test_last_single"
                                ELSE "test_assert"
                       /\ UNCHANGED err
                  ELSE TestFails(r.err) /\ UNCHANGED check
    /\ UNCHANGED <<server, session, uids, first_email_bodies, tui, terminal, frame,
                   history>>

TestFirstSingle == TestSingle("first")

TestLastSingle == TestSingle("last")

\* `assert!(first_all == &first_single); assert!(last_all == &last_single);`
TestAssert ==
    /\ pc = "test_assert"
    /\ pc' = IF /\ check.mails[1] = check.first_single[1]
                /\ check.mails[Len(check.mails)] = check.last_single[1]
             THEN "test_passed"
             ELSE "test_panicked"
    /\ UNCHANGED <<server, loader, err, tui, terminal, frame, history, check>>

NextTest ==
    \/ TestSelect
    \/ TestGetAllMails
    \/ Deliver
    \/ Expunge
    \/ TestGetUids
    \/ TestFirstSingle
    \/ TestLastSingle
    \/ TestAssert

SpecTest == InitTest /\ [][NextTest]_vars

(***************************************************************************)
(* Input events (crossterm) and the text editor of a draft field           *)
(* (tui_input), as the writer uses them.                                   *)
(***************************************************************************)
KeyChar(c) == [type |-> "Key", code |-> "Char", ch |-> c]

Key(code) == [type |-> "Key", code |-> code, ch |-> ""]

Other(type) == [type |-> type, code |-> "", ch |-> ""]

\* The characters with a binding, and one without.
Chars == {"q", "j", "k", "l", "h", "w", "r", "m", "t", "s", "b", "x"}

\* The characters the modelled user types into a draft field.
TextChars == {"q", "m", "t"}

Events ==
    {KeyChar(c) : c \in Chars}
    \cup {Key(k) : k \in {"Esc", "Enter", "Left", "Backspace"}}
    \cup {Other(t) : t \in {"FocusGained", "FocusLost", "Mouse", "Paste", "Resize"}}

\* InputRequest::InsertChar: the character goes in at the edit cursor, which moves
\* past it.
InsertChar(inp, c) ==
    [value |-> SubSeq(inp.value, 1, inp.cursor) \o <<c>>
               \o SubSeq(inp.value, inp.cursor + 1, Len(inp.value)),
     cursor |-> inp.cursor + 1]

\* Input::handle_event for the keys of Events: a character is inserted, Backspace
\* deletes the character before the cursor, Left moves the cursor; anything else
\* leaves the input as it is.
handle_event(inp, ev) ==
    IF ev.type # "Key" THEN inp
    ELSE CASE ev.code = "Char" -> InsertChar(inp, ev.ch)
           [] ev.code = "Backspace" /\ inp.cursor > 0 ->
                [value |-> SubSeq(inp.value, 1, inp.cursor - 1)
                           \o SubSeq(inp.value, inp.cursor + 1, Len(inp.value)),
                 cursor |-> inp.cursor - 1]
           [] ev.code = "Left" /\ inp.cursor > 0 -> [inp EXCEPT !.cursor = @ - 1]
           [] OTHER -> inp

Writer_handle_key_events_consuming(w, ev) ==
    IF ev.type # "Key" THEN [writer |-> w, handled |-> TRUE]
    ELSE CASE w.state = "None" /\ ev = KeyChar("t") ->
                [writer |-> [w EXCEPT !.state = "To"], handled |-> TRUE]
           [] w.state = "None" /\ ev = KeyChar("s") ->
                [writer |-> [w EXCEPT !.state = "Subject"], handled |-> TRUE]
           [] w.state = "None" /\ ev = KeyChar("b") ->
                [writer |-> [w EXCEPT !.state = "Body"], handled |-> TRUE]
           [] w.state # "None" /\ ev.code = "Esc" ->
                [writer |-> [w EXCEPT !.state = "None"], handled |-> TRUE]
           [] w.state = "Subject" ->
                [writer |-> [w EXCEPT !.subject = handle_event(@, ev)], handled |-> TRUE]
           [] w.state = "Body" ->
                [writer |-> [w EXCEPT !.body = handle_event(@, ev)], handled |-> TRUE]
           [] w.state = "To" ->
                [writer |-> [w EXCEPT !.to = handle_event(@, ev)], handled |-> TRUE]
           [] OTHER -> [writer |-> w, handled |-> TRUE]

Writer_handle_key_events_esc_typed(w, ev) ==
    IF ev.type # "Key" THEN [writer |-> w, handled |-> TRUE]
    ELSE CASE w.state = "None" /\ ev = KeyChar("t") ->
                [writer |-> [w EXCEPT !.state = "To"], handled |-> TRUE]
           [] w.state = "None" /\ ev = KeyChar("s") ->
                [writer |-> [w EXCEPT !.state = "Subject"], handled |-> TRUE]
           [] w.state = "None" /\ ev = KeyChar("b") ->
                [writer |-> [w EXCEPT !.state = "Body"], handled |-> TRUE]
           [] w.state = "Subject" ->
                [writer |-> [w EXCEPT !.subject = handle_event(@, ev)], handled |-> TRUE]
           [] w.state = "Body" ->
                [writer |-> [w EXCEPT !.body = handle_event(@, ev)], handled |-> TRUE]
           [] w.state = "To" ->
                [writer |-> [w EXCEPT !.to = handle_event(@, ev)], handled |-> TRUE]
           [] OTHER -> [writer |-> w, handled |-> FALSE]

\* Writer::handle_key_events: TRUE when the writer consumed the event.
Writer_handle_key_events(w, ev) ==
    IF ev.type # "Key" THEN [writer |-> w, handled |-> TRUE]
    ELSE CASE w.state = "None" /\ ev = KeyChar("t") ->
                [writer |-> [w EXCEPT !.state = "To"], handled |-> TRUE]
           [] w.state = "None" /\ ev = KeyChar("s") ->
                [writer |-> [w EXCEPT !.state = "Subject"], handled |-> TRUE]
           [] w.state = "None" /\ ev = KeyChar("b") ->
                [writer |-> [w EXCEPT !.state = "Body"], handled |-> TRUE]
           [] w.state # "None" /\ ev.code = "Esc" ->
                [writer |-> [w EXCEPT !.state = "None"], handled |-> TRUE]
           [] w.state = "Subject" ->
                [writer |-> [w EXCEPT !.subject = handle_event(@, ev)], handled |-> TRUE]
           [] w.state = "Body" ->
                [writer |-> [w EXCEPT !.body = handle_event(@, ev)], handled |-> TRUE]
           [] w.state = "To" ->
                [writer |-> [w EXCEPT !.to = handle_event(@, ev)], handled |-> TRUE]
           [] OTHER -> [writer |-> w, handled |-> FALSE]

(***************************************************************************)
(* tui/app.rs: the navigation state machine.                               *)
(***************************************************************************)
Nav == [mode |-> mode, current_id |-> current_id, open_email_id |-> open_email_id,
        running |-> running]

sub1_unchecked(n) == n - 1

\* usize::saturating_sub(1).
saturating_sub1(n) == IF n = 0 THEN 0 ELSE n - 1

next_id_unchecked(cur, len) == cur + 1

\* The 'j' arm: `saturating_add(1)`, kept only when it is below `emails.len()`.
next_id(cur, len) == IF cur + 1 < len THEN cur + 1 ELSE cur

quit_ignored(nav) == nav

quit_unless_writing(nav) ==
    IF nav.mode.tag = "Writing" THEN nav ELSE [nav EXCEPT !.running = FALSE]

quit_closing(nav) == [nav EXCEPT !.running = FALSE, !.open_email_id = None]

\* The 'q' arm: `self.running = false`.
quit(nav) == [nav EXCEPT !.running = FALSE]

\* The 'l' arm in Reading: `self.open_email_id = Some(self.current_id)`.
open_email(nav) == [nav EXCEPT !.open_email_id = Some(nav.current_id)]

close_email_toggling(nav) ==
    [nav EXCEPT !.open_email_id = IF @ = None THEN Some(nav.current_id) ELSE None]

\* The 'h' arm in Reading: `self.open_email_id = None`.
close_email(nav) == [nav EXCEPT !.open_email_id = None]

ignore_event_leaving_mode(nav) == [nav EXCEPT !.mode = Help]

\* The arms `Event::Key(_) | Event::FocusGained | Event::FocusLost |
\* Event::Mouse(_) | Event::Paste(_) | Event::Resize(..) => ()`.
ignore_event(nav) == nav

match_event_any_mode(m, ev) ==
    LET nav == [Nav EXCEPT !.mode = m]
    IN IF ev.type # "Key" \/ ev.code # "Char" THEN ignore_event(nav)
       ELSE CASE ev.ch = "q" -> quit(nav)
              [] ev.ch = "j" ->
                   [nav EXCEPT !.current_id = next_id(current_id, Len(emails))]
              [] ev.ch = "k" ->
                   [nav EXCEPT !.current_id = saturating_sub1(current_id)]
              [] ev.ch = "l" /\ m.tag = "Reading" -> open_email(nav)
              [] ev.ch = "h" /\ m.tag = "Reading" -> close_email(nav)
              [] ev.ch = "w" -> [nav EXCEPT !.mode = new_writer]
              [] ev.ch = "r" -> [nav EXCEPT !.mode = Reading]
              [] ev.ch = "m" -> [nav EXCEPT !.mode = Help]
              [] OTHER -> nav

\* The `match event` of Tui::handle_key_events, reached when the writer did not
\* consume the event; `m` is the mode after the writer saw it.
match_event(m, ev) ==
    LET nav == [Nav EXCEPT !.mode = m]
    IN IF ev.type # "Key" \/ ev.code # "Char" THEN ignore_event(nav)
       ELSE CASE ev.ch = "q" -> quit(nav)
              [] ev.ch = "j" /\ m.tag = "Reading" ->
                   [nav EXCEPT !.current_id = next_id(current_id, Len(emails))]
              [] ev.ch = "k" /\ m.tag = "Reading" ->
                   [nav EXCEPT !.current_id = saturating_sub1(current_id)]
              [] ev.ch = "l" /\ m.tag = "Reading" -> open_email(nav)
              [] ev.ch = "h" /\ m.tag = "Reading" -> close_email(nav)
              [] ev.ch = "w" -> [nav EXCEPT !.mode = new_writer]
              [] ev.ch = "r" -> [nav EXCEPT !.mode = Reading]
              [] ev.ch = "m" -> [nav EXCEPT !.mode = Help]
              [] OTHER -> nav

\* A variant in which the global match runs even after the writer consumed the
\* event.
handle_key_events_falling_through(ev) ==
    IF mode.tag = "Writing"
    THEN match_event(Writing(Writer_handle_key_events(mode.writer, ev).writer), ev)
    ELSE match_event(mode, ev)

\* Tui::handle_key_events after a successful read(): in Writing the writer sees
\* the event first, and an event it consumed goes no further.
handle_key_events(ev) ==
    IF mode.tag = "Writing"
    THEN LET w == Writer_handle_key_events(mode.writer, ev)
         IN IF w.handled
            THEN [Nav EXCEPT !.mode = Writing(w.writer)]
            ELSE match_event(Writing(w.writer), ev)
    ELSE match_event(mode, ev)

\* The steps of the loop taken last, at most two of them.
LastTwo(s) == IF Len(s) <= 2 THEN s ELSE SubSeq(s, Len(s) - 1, Len(s))

while_running_without_draw(r) == IF r THEN "read" ELSE "done"

\* `while self.running`: the next iteration starts with the draw, or the loop ends.
while_running(r) == IF r THEN "draw" ELSE "done"

\* While a field captures text the modelled user types characters of TextChars
\* only, and only while the draft holds fewer than MaxText characters.
Typable(ev) ==
    (FieldActive /\ ev.type = "Key" /\ ev.code = "Char")
        => (ev.ch \in TextChars /\ DraftLen(mode.writer) < MaxText)

HandleEvent_resorting(ev) ==
    /\ pc = "read"
    /\ Typable(ev)
    /\ LET nav == handle_key_events(ev)
       IN /\ mode' = nav.mode
          /\ current_id' = nav.current_id
          /\ open_email_id' = nav.open_email_id
          /\ running' = nav.running
          /\ discarded' = (/\ mode.tag = "Writing"
                           /\ mode.writer.subject.value # <<>>
                           /\ (nav.mode.tag # "Writing" \/ nav.mode.writer = Writer_default))
          /\ closed' = (/\ mode.tag = "Reading"
                        /\ ev = KeyChar("h")
                        /\ open_email_id # None)
          /\ ignored' = (ev.type # "Key")
          /\ pc' = while_running(nav.running)
          /\ terminal' = IF nav.running THEN terminal ELSE "restored"
    /\ steps' = LastTwo(Append(steps, "read"))
    /\ frame' = <<>>
    /\ emails' = IF ev = KeyChar("r") THEN reverse(emails) ELSE emails
    /\ UNCHANGED <<server, loader, err, check>>

\* One pass through Tui::handle_key_events with read() returning `ev`, followed
\* by the loop test of Tui::run: when running is false the loop ends,
\* ratatui::restore() runs and run() returns Ok.
HandleEvent(ev) ==
    /\ pc = "read"
    /\ Typable(ev)
    /\ LET nav == handle_key_events(ev)
       IN /\ mode' = nav.mode
          /\ current_id' = nav.current_id
          /\ open_email_id' = nav.open_email_id
          /\ running' = nav.running
          /\ discarded' = (/\ mode.tag = "Writing"
                           /\ mode.writer.subject.value # <<>>
                           /\ (nav.mode.tag # "Writing" \/ nav.mode.writer = Writer_default))
          /\ closed' = (/\ mode.tag = "Reading"
                        /\ ev = KeyChar("h")
                        /\ open_email_id # None)
          /\ ignored' = (ev.type # "Key")
          /\ pc' = while_running(nav.running)
          /\ terminal' = IF nav.running THEN terminal ELSE "restored"
    /\ steps' = LastTwo(Append(steps, "read"))
    /\ frame' = <<>>
    /\ UNCHANGED <<server, loader, err, emails, check>>

HandleKeyEvents == \E ev \in Events : HandleEvent(ev)

ReadFails_retrying ==
    /\ pc = "read"
    /\ pc' = "draw"
    /\ err' = Some("IoKeyboard")
    /\ UNCHANGED <<server, loader, tui, terminal, frame, history, check>>

\* `read().map_err(Error::IoKeyboard)?`: run() returns the error at once.
ReadFails ==
    /\ pc = "read"
    /\ pc' = "run_failed"
    /\ err' = Some("IoKeyboard")
    /\ UNCHANGED <<server, loader, tui, terminal, frame, history, check>>

(***************************************************************************)
(* tui/app.rs: rendering.                                                  *)
(***************************************************************************)
\* Email::get_header(name) followed by the typed accessor and `?`.
required_header(shape, wanted) ==
    IF shape = "absent" THEN Err("MissingHeader")
    ELSE IF shape # wanted THEN Err("InvalidHeaderType")
    ELSE Ok(shape)

\* `headers.get(name).map_or_else(|| Ok(placeholder), |value| typed accessor)?`.
optional_header(shape, wanted, placeholder) ==
    IF shape = "absent" THEN Ok(placeholder)
    ELSE IF shape # wanted THEN Err("InvalidHeaderType")
    ELSE Ok(shape)

RECURSIVE explorer_items(_, _)
\* The closure of get_email_explorer_widget over the emails, collected: the
\* subject and date lines of every email, or the first error.
explorer_items(list, acc) ==
    IF list = <<>> THEN Ok(acc)
    ELSE LET subject == required_header(Head(list).subject, "text")
             date == required_header(Head(list).date, "datetime")
             item == IF ~subject.ok THEN subject
                     ELSE IF ~date.ok THEN date
                     ELSE Ok([uid |-> Head(list).uid, subject |-> subject.val,
                              date |-> date.val])
             r == collect(acc, item)
         IN IF r.ok THEN explorer_items(Tail(list), r.val) ELSE r

\* Tui::get_email_explorer_widget.
get_email_explorer_widget ==
    LET items == explorer_items(emails, <<>>)
    IN IF items.ok
       THEN Ok([title |-> "Recent emails", items |-> items.val,
                highlighted |-> current_id])
       ELSE items

\* Tui::get_email_viewer_widget.
get_email_viewer_widget(email) ==
    LET subject == optional_header(email.subject, "text", "No subject")
        date == optional_header(email.date, "datetime", "No date")
        from == optional_header(email.from, "address", "No from")
    IN IF ~subject.ok THEN subject
       ELSE IF ~date.ok THEN date
       ELSE IF ~from.ok THEN from
       ELSE Ok([title |-> "Email viewer", uid |-> email.uid, subject |-> subject.val,
                date |-> date.val, from |-> from.val])

\* Tui::draw_emails; `self.emails[open_email_id]` panics when out of bounds.
draw_emails ==
    IF open_email_id # None
    THEN IF open_email_id[1] >= Len(emails) THEN Err("IndexOutOfBounds")
         ELSE LET explorer == get_email_explorer_widget
                  viewer == get_email_viewer_widget(emails[open_email_id[1] + 1])
              IN IF ~explorer.ok THEN explorer
                 ELSE IF ~viewer.ok THEN viewer
                 ELSE Ok(<<explorer.val, viewer.val>>)
    ELSE LET explorer == get_email_explorer_widget
         IN IF ~explorer.ok THEN explorer ELSE Ok(<<explorer.val>>)

\* Tui::draw_tui: the regions drawn for the current mode.
draw_tui ==
    CASE mode.tag = "Help" -> Ok(<<[title |-> "mailbox-tui"]>>)
      [] mode.tag = "Writing" ->
           Ok(<<[title |-> "writer", subject |-> mode.writer.subject.value,
                 to |-> mode.writer.to.value, body |-> mode.writer.body.value]>>)
      [] OTHER -> draw_emails

RunStart_refetching ==
    /\ pc = "ready"
    /\ terminal' = "raw"
    /\ running' = TRUE
    /\ pc' = "draw"
    /\ sent' = Append(sent, Request("search", 0, "ok"))
    /\ UNCHANGED <<server, session, response, uids, first_email_bodies, err, emails,
                   mode, current_id, open_email_id, frame, history, check>>

\* Tui::run up to the loop: `ratatui::init()`, `self.running = true`.
RunStart ==
    /\ pc = "ready"
    /\ terminal' = "raw"
    /\ running' = TRUE
    /\ pc' = "draw"
    /\ UNCHANGED <<server, loader, err, emails, mode, current_id, open_email_id,
                   frame, history, check>>

\* `terminal.draw(|frame| self.draw_tui(frame).unwrap())`: the frame is drawn, or
\* the unwrap (or an index out of bounds) panics; the panic hook installed by
\* ratatui::init() restores the terminal before the panic is reported.
Draw ==
    /\ pc = "draw"
    /\ LET r == draw_tui
       IN IF r.ok
          THEN /\ frame' = r.val
               /\ steps' = LastTwo(Append(steps, "render"))
               /\ ignored' = FALSE
               /\ pc' = "read"
               /\ UNCHANGED err
          ELSE /\ frame' = <<>>
               /\ pc' = "panicked"
               /\ err' = Some(r.err)
               /\ UNCHANGED <<steps, ignored>>
    /\ terminal' = IF draw_tui.ok THEN terminal ELSE "restored"
    /\ UNCHANGED <<server, loader, tui, discarded, closed, check>>

\* `.map_err(Error::Drawing)?`: the terminal failed to draw, run() returns the error.
DrawFails ==
    /\ pc = "draw"
    /\ pc' = "run_failed"
    /\ err' = Some("Drawing")
    /\ UNCHANGED <<server, loader, tui, terminal, frame, history, check>>

Next ==
    \/ NextLoad
    \/ RunStart
    \/ Draw
    \/ DrawFails
    \/ HandleKeyEvents
    \/ ReadFails

Spec == Init /\ [][Next]_vars

(***************************************************************************)
(* Properties of the session and of the initial load (SpecLoad).           *)
(***************************************************************************)
IsPrefix(s, t) == Len(s) <= Len(t) /\ \A i \in DOMAIN s : s[i] = t[i]

StrictlyDescending(s) == \A i, j \in DOMAIN s : i < j => s[i] > s[j]

\* C1: every search or fetch request sent to the server comes after a successful
\* select on the session; a failed select is the last request of the run: the
\* session is consumed and neither a search nor a fetch is ever sent on it.
C1_SelectBeforeSearchAndFetch ==
    /\ \A i \in DOMAIN sent :
         sent[i].op \in {"search", "fetch"} =>
           \E j \in 1..(i - 1) : sent[j].op = "select" /\ sent[j].res = "ok"
    /\ \A j \in DOMAIN sent :
         (sent[j].op = "select" /\ sent[j].res # "ok") =>
           (j = Len(sent) /\ session = "dropped" /\ pc = "new_failed")

\* Reached: a select succeeded, then the search and at least two fetches went out.
C1_Witness ==
    /\ Len(FetchRequests) >= 2
    /\ \E j \in DOMAIN sent : sent[j].op = "select" /\ sent[j].res = "ok"

\* C2: whatever the set of ids and the order the server lists them in, get_uids
\* returns exactly those ids, each once, strictly descending; a failed search
\* returns an error and no sequence.
C2_UidsStrictlyDescending ==
    \A i \in DOMAIN sent :
      sent[i].op = "search" =>
        IF sent[i].res = "ok"
        THEN /\ Range(uids) = mailbox
             /\ Len(uids) = Cardinality(mailbox)
             /\ StrictlyDescending(uids)
             /\ (response.op = "search" => Range(response.ids) = Range(uids))
        ELSE /\ uids = <<>>
             /\ pc = "new_failed"
             /\ err = Some("ImapFetch")

\* Reached: the server listed three or more ids in an order that is neither
\* ascending nor descending, and get_uids returned them.
C2_Witness ==
    /\ response.op = "search"
    /\ Len(response.ids) >= 3
    /\ response.ids[1] < response.ids[2]
    /\ response.ids[2] > response.ids[3]
    /\ Len(uids) = Len(response.ids)

\* C3: the fetch requests of the initial load go out for the first ids of the
\* descending list, in that order, one per id, never for an id after the first
\* Limit; a load that succeeds fetched exactly the first min(Limit, n) ids.
C3_FetchesFirstLimitIds ==
    /\ IsPrefix(FetchedUids, Take(uids, Limit))
    /\ Len(FetchedUids) <= Limit
    /\ pc = "ready" => FetchedUids = Take(uids, Limit)

\* Reached: a mailbox with more than Limit ids was loaded with Limit fetches.
C3_Witness ==
    /\ pc = "ready"
    /\ Len(uids) > Limit
    /\ Len(FetchedUids) = Limit

\* C4: a failed fetch is the last request of the load: the load returns that
\* error, nothing is fetched after it, nothing is parsed and no message list
\* exists; a load that returns Ok holds the complete batch.
C4_FailFast ==
    /\ \A i \in DOMAIN sent :
         (sent[i].op = "fetch" /\ sent[i].res # "ok") =>
           /\ i = Len(sent)
           /\ pc = "new_failed"
           /\ err = Some(sent[i].res)
           /\ emails = <<>>
    /\ pc = "new_failed" => emails = <<>>
    /\ pc = "ready" => Len(emails) = Min(Limit, Cardinality(mailbox))

\* Reached: the third of at least five fetches failed.
C4_Witness ==
    /\ Len(FetchRequests) = 3
    /\ FetchRequests[3].res # "ok"
    /\ Len(Take(uids, Limit)) >= 5
    /\ pc = "new_failed"

\* C5: after a successful load the message list holds one message per fetched id,
\* in fetch order (descending id, newest at index 0); the message at index i has
\* the id of the i-th fetch and the content stored for that id.
C5_ListInFetchOrder ==
    pc = "ready" =>
      /\ Len(emails) = Len(FetchedUids)
      /\ \A i \in DOMAIN emails :
           emails[i].uid = FetchedUids[i] /\ emails[i].content = FetchedUids[i]
      /\ StrictlyDescending([i \in DOMAIN emails |-> emails[i].uid])

\* Reached: a list of three or more messages was loaded.
C5_Witness ==
    /\ pc = "ready"
    /\ Len(emails) >= 3
    /\ emails[1].uid > emails[3].uid

(***************************************************************************)
(* Properties of the navigation state machine (Spec).                      *)
(***************************************************************************)
\* A Tui value exists: Tui::new returned Ok.
TuiExists == pc \in {"ready", "draw", "read", "done", "run_failed", "panicked"}

Fields == {"To", "Subject", "Body"}

\* The input of the draft `w` that the writer state `f` names.
Field(w, f) == IF f = "Subject" THEN w.subject ELSE IF f = "Body" THEN w.body ELSE w.to

\* C6: after every event the cursor is a valid index of a non-empty message list,
\* and it is 0, whatever j and k were pressed, when the list is empty.
C6_CursorInRange ==
    TuiExists =>
      IF Len(emails) > 0
      THEN current_id \in 0..(Len(emails) - 1)
      ELSE current_id = 0

\* Reached: j moved the cursor to the last of two or more messages.
C6_Witness ==
    /\ mode.tag = "Reading"
    /\ Len(emails) >= 2
    /\ current_id = Len(emails) - 1

\* C7 as stated: with a draft field active, q is appended to that field's text,
\* the application keeps running, the mode stays Writing and the active field
\* is unchanged.
C7_QAppended ==
    [][\A f \in Fields :
         (FieldActive /\ mode.writer.state = f /\ HandleEvent(KeyChar("q"))) =>
           /\ running'
           /\ mode'.tag = "Writing"
           /\ mode'.writer.state = f
           /\ Field(mode'.writer, f).value = Append(Field(mode.writer, f).value, "q")]_vars

\* C7 amended: with a draft field active, q is inserted as a literal character
\* into that field's text at the field's edit cursor (the end of the text unless
\* the cursor was moved), the application keeps running, the mode stays Writing
\* and the active field is unchanged.
C7_QInsertedAtCursor ==
    [][\A f \in Fields :
         (FieldActive /\ mode.writer.state = f /\ HandleEvent(KeyChar("q"))) =>
           LET old == Field(mode.writer, f)
               new == Field(mode'.writer, f)
           IN /\ running'
              /\ pc' = "draw"
              /\ mode'.tag = "Writing"
              /\ mode'.writer.state = f
              /\ Len(new.value) = Len(old.value) + 1
              /\ new.value[old.cursor + 1] = "q"
              /\ \A i \in 1..old.cursor : new.value[i] = old.value[i]
              /\ \A i \in (old.cursor + 1)..Len(old.value) : new.value[i + 1] = old.value[i]
              /\ (old.cursor = Len(old.value) => new.value = Append(old.value, "q"))]_vars

\* Reached: the body field is active, holds a q typed before an earlier
\* character, and the application is running.
C7_Witness ==
    /\ FieldActive
    /\ mode.writer.state = "Body"
    /\ mode.writer.body.value = <<"q", "m">>
    /\ running
    /\ pc = "draw"

\* C8: in Help, in Reading and in Writing with no field active, q ends the
\* application: running becomes false and the loop is left; once it is left
\* nothing is rendered and no event is read.
C8_QuitEndsLoop ==
    [][/\ (~FieldActive /\ HandleEvent(KeyChar("q"))) =>
            (~running' /\ pc' = "done" /\ frame' = <<>>)
       /\ pc # "done"]_vars

\* Reached: the loop was left from Writing with no field active and a draft
\* that holds text.
C8_Witness ==
    /\ pc = "done"
    /\ ~running
    /\ mode.tag = "Writing"
    /\ mode.writer.state = "None"
    /\ DraftLen(mode.writer) > 0

\* The mode switches m, r and w take effect on this step.
ModeKeysSwitch ==
    /\ HandleEvent(KeyChar("m")) => mode' = Help
    /\ HandleEvent(KeyChar("r")) => mode' = Reading
    /\ HandleEvent(KeyChar("w")) => mode' = Writing(Writer_default)

\* C9 as stated: from every state of the navigation machine, Writing with a field
\* active included, m switches to Help, r to Reading and w to Writing with a new
\* empty draft.
C9_ModeKeysFromAnyState == [][ModeKeysSwitch]_vars

\* C9 amended: from Help, from Reading and from Writing with no field active, m
\* switches to Help, r to Reading and w to Writing with a new empty draft.
C9_ModeKeysUnlessCapturing == [][~FieldActive => ModeKeysSwitch]_vars

\* Reached: m was pressed in Writing with no field active and a draft that held
\* subject text: the mode is Help and the draft is gone.
C9_Witness ==
    /\ mode = Help
    /\ discarded
    /\ pc = "draw"

\* C10: every entry into Writing, from Help or Reading or by w pressed in Writing
\* with no field active, yields a draft whose subject, recipients and body are
\* empty and in which no field is active; outside Writing no draft is kept.
C10_EnteringWritingDiscardsDraft ==
    [][((mode.tag # "Writing" /\ mode'.tag = "Writing")
          \/ (IsWriting /\ ~FieldActive /\ HandleEvent(KeyChar("w")))) =>
         /\ mode'.tag = "Writing"
         /\ mode'.writer.subject.value = <<>>
         /\ mode'.writer.to.value = <<>>
         /\ mode'.writer.body.value = <<>>
         /\ mode'.writer.state = "None"]_vars

\* Reached: w was pressed in Writing, no field active, on a draft whose subject
\* held text, and the draft shown now is empty.
C10_Witness ==
    /\ discarded
    /\ mode.tag = "Writing"
    /\ mode.writer = Writer_default

\* C11: in Reading, l opens the message under the cursor (opened = Some(cursor))
\* and h closes it (opened = None), so h after l leaves no message open; h
\* pressed when no message is open changes nothing of the navigation state.
\* Neither key moves the cursor or leaves Reading.
C11_OpenThenClose ==
    [][mode.tag = "Reading" =>
         /\ HandleEvent(KeyChar("l")) =>
              /\ open_email_id' = Some(current_id)
              /\ mode' = Reading /\ current_id' = current_id /\ running' = running
         /\ HandleEvent(KeyChar("h")) =>
              /\ open_email_id' = None
              /\ mode' = Reading /\ current_id' = current_id /\ running' = running
              /\ (open_email_id = None => UNCHANGED tui)]_vars

\* Reached: a message other than the first was opened with l and shown, then h was
\* pressed: no message is open.
C11_Witness ==
    /\ closed
    /\ mode = Reading
    /\ current_id > 0
    /\ open_email_id = None
    /\ pc = "draw"

\* The message at index i of the list has no Subject header.
NoSubject(i) == i < Len(emails) /\ emails[i + 1].subject = "absent"

\* C12: a message without Subject header does not make the rendering of the
\* Reading view fail: no render ends with a MissingHeader error, and when such a
\* message is open the frame holds the message list and a viewer whose subject
\* line is "No subject", with its date and from lines.
C12_MissingSubjectPlaceholder ==
    /\ ~(pc = "panicked" /\ err = Some("MissingHeader"))
    /\ (/\ pc = "read"
        /\ mode = Reading
        /\ open_email_id # None
        /\ NoSubject(open_email_id[1])) =>
          /\ Len(frame) = 2
          /\ frame[1].title = "Recent emails"
          /\ frame[2].subject = "No subject"
          /\ frame[2].date = "datetime"
          /\ frame[2].from = "address"

\* C13: the loop of Tui::run alternates render and read: the first step is a
\* render, a render is never followed by a render nor a read by a read, an event
\* is read only with the frame of the current state on screen, and after an
\* event's update the next step is a render.
C13_RenderReadAlternate ==
    /\ Len(steps) = 1 => steps = <<"render">>
    /\ Len(steps) = 2 => steps[1] # steps[2]
    /\ pc = "read" => (steps # <<>> /\ steps[Len(steps)] = "render" /\ frame # <<>>)
    /\ (pc = "draw" /\ steps # <<>>) => (steps[Len(steps)] = "read" /\ frame = <<>>)

\* Reached: the loop rendered, read an event, updated and rendered again, and now
\* waits for the second event.
C13_Witness ==
    /\ steps = <<"read", "render">>
    /\ pc = "read"
    /\ mode.tag = "Reading"

\* The logout requests sent so far.
Logouts == SelectSeq(sent, LAMBDA q : q.op = "logout")

\* Tui::run has returned or panicked.
LoopExited == pc \in {"done", "run_failed", "panicked"}

\* C14: the session opened by the load stays open, with no logout sent, until the
\* event loop exits; once the loop has exited, by q or through an error, exactly
\* one logout was sent on it, as the last request.
C14_LogoutOnceAtLoopExit ==
    /\ pc \in {"ready", "draw", "read"} =>
         (session = "MailboxSelected" /\ Len(Logouts) = 0)
    /\ LoopExited =>
         (Len(Logouts) = 1 /\ sent[Len(sent)].op = "logout" /\ session = "dropped")

(***************************************************************************)
(* Properties of the fetch and of the parser (SpecLoad).                   *)
(***************************************************************************)
\* The fetch request sent last and the server's response to it are at hand.
FetchAnswered ==
    /\ response.op = "fetch"
    /\ sent # <<>>
    /\ sent[Len(sent)].op = "fetch"

\* C15 as stated: no fetch of an id that get_uids returned ends with NoEmail.
C15_NeverNoEmail ==
    \A i \in DOMAIN sent :
      (sent[i].op = "fetch" /\ sent[i].uid \in Range(uids)) => sent[i].res # "NoEmail"

\* C15 amended: every fetch of the load is for an id that get_uids returned, and
\* it ends with NoEmail exactly when the server answers the fetch without error
\* and without any result (the message left the mailbox after the search); an
\* answer that holds a result never gives NoEmail.
C15_NoEmailOnlyWithoutResult ==
    /\ \A i \in DOMAIN sent : sent[i].op = "fetch" => sent[i].uid \in Range(uids)
    /\ FetchAnswered =>
         (sent[Len(sent)].res = "NoEmail" <=> (response.ok /\ response.results = <<>>))

\* Reached: every id of a mailbox of two or more messages was fetched and none of
\* the fetches ended with NoEmail.
C15_Witness ==
    /\ FetchAnswered
    /\ response.results # <<>>
    /\ Len(uids) >= 2
    /\ FetchedUids = uids
    /\ \A i \in DOMAIN FetchRequests : FetchRequests[i].res = "ok"

\* C16: get_mail_from_uid classifies the server's answer in this order: a failed
\* request gives ImapFetch; an answer without result gives NoEmail; a first result
\* without body gives NoBody; a body that is not UTF-8 gives InvalidBody; in every
\* other case the call returns the text of the first result's body.
C16_FetchClassification ==
    FetchAnswered =>
      LET q == sent[Len(sent)]
          r == response
      IN IF ~r.ok THEN q.res = "ImapFetch"
         ELSE IF r.results = <<>> THEN q.res = "NoEmail"
         ELSE IF Head(r.results).body = None THEN q.res = "NoBody"
         ELSE IF ~Head(r.results).body[1].utf8 THEN q.res = "InvalidBody"
         ELSE /\ q.res = "ok"
              /\ first_email_bodies # <<>>
              /\ first_email_bodies[Len(first_email_bodies)]
                   = <<q.uid, Head(r.results).body[1].payload>>

\* Reached: the second fetch of a load brought a result whose body is not UTF-8
\* and was classified InvalidBody.
C16_Witness ==
    /\ FetchAnswered
    /\ Len(FetchRequests) = 2
    /\ response.ok
    /\ response.results # <<>>
    /\ Head(response.results).body # None
    /\ ~Head(response.results).body[1].utf8
    /\ sent[Len(sent)].res = "InvalidBody"

\* The indices of the fetched payloads that do not parse, given what each payload
\* is to parse to.
Failing(expected(_)) ==
    {i \in DOMAIN first_email_bodies : expected(first_email_bodies[i][2]) # "ok"}

\* The parse of the fetched payloads ends as `expected` says of each payload: the
\* error of the first payload that does not parse, or one Message per payload
\* carrying the id the payload was fetched with.
ParsesAs(expected(_)) ==
    NewParse =>
      IF Failing(expected) = {}
      THEN /\ pc' = "ready"
           /\ Len(emails') = Len(first_email_bodies)
           /\ \A i \in DOMAIN first_email_bodies :
                emails'[i].uid = first_email_bodies[i][1]
      ELSE LET first == CHOOSE i \in Failing(expected) :
                          \A j \in Failing(expected) : i <= j
           IN /\ pc' = "new_failed"
              /\ err' = Some(expected(first_email_bodies[first][2]))
              /\ emails' = <<>>

\* C17 as stated: ParseFailure when the parser finds no structure, NoHeaders when
\* the structure carries zero header fields, a Message otherwise.
NoHeadersWhenNoFields(p) ==
    IF p.structure = "none" THEN "ParseFailure"
    ELSE IF HeaderFields(p) = 0 THEN "NoHeaders"
    ELSE "ok"

C17_NoHeadersIffZeroFields == [][ParsesAs(NoHeadersWhenNoFields)]_vars

\* C17 amended: ParseFailure exactly when the parser finds no structure, NoHeaders
\* exactly when the structure found has no part at all; in every other case, a
\* first part with zero header fields included, a Message carrying the given id.
NoHeadersWhenNoParts(p) ==
    IF p.structure = "none" THEN "ParseFailure"
    ELSE IF p.structure = "noparts" THEN "NoHeaders"
    ELSE "ok"

C17_NoHeadersIffNoParts == [][ParsesAs(NoHeadersWhenNoParts)]_vars

\* Reached: a payload whose first part has no header field was parsed into a
\* Message of a loaded list of two or more.
C17_Witness ==
    /\ pc = "ready"
    /\ Len(emails) >= 2
    /\ \E i \in DOMAIN emails :
         /\ emails[i].subject = "absent"
         /\ emails[i].date = "absent"
         /\ emails[i].from = "absent"

(***************************************************************************)
(* Properties of get_all_mails against the per-uid fetch (SpecTest).       *)
(***************************************************************************)
\* The first and last body of get_all_mails are the bodies the two per-uid fetches
\* returned for the smallest and the largest uid of get_uids.
FirstLastAgree ==
    /\ check.first_single = Some(check.mails[1])
    /\ check.last_single = Some(check.mails[Len(check.mails)])
    /\ sent[Len(sent) - 1].uid = uids[1]
    /\ sent[Len(sent)].uid = uids[Len(uids)]
    /\ \A i \in DOMAIN uids : uids[1] <= uids[i] /\ uids[i] <= uids[Len(uids)]

\* get_all_mails lists the bodies by ascending uid.
AllMailsAscending ==
    \A i, j \in DOMAIN check.mails :
      i < j => check.mails[i].content < check.mails[j].content

C19_ManualKeyOpensReader ==
    [][(mode = Reading /\ HandleEvent(KeyChar("m"))) =>
         (open_email_id' = Some(current_id) /\ mode' = Reading)]_vars

\* C20: the Tui that a successful load returns is in mode Help with the cursor at
\* 0 and no message open, and it stays so until the first event; the first frame
\* run() renders is the Help page.
C20_StartsInHelp ==
    /\ (pc = "ready" \/ (pc \in {"draw", "read"} /\ Len(steps) <= 1)) =>
         (mode = Help /\ current_id = 0 /\ open_email_id = None)
    /\ (pc = "read" /\ steps = <<"render">>) =>
         (frame = <<[title |-> "mailbox-tui"]>> /\ running)

\* Reached: two messages were loaded and run() rendered its first frame.
C20_Witness ==
    /\ pc = "read"
    /\ steps = <<"render">>
    /\ Len(emails) = 2
    /\ frame # <<>>

(***************************************************************************)
(* Properties of startup failures and of the running loop (Spec).          *)
(***************************************************************************)
\* Tui::new is running.
Starting ==
    pc \in {"new_credentials", "new_connect", "new_select", "new_get_uids", "new_fetch"}

\* The errors Tui::new can return.
StartupErrors ==
    {"Credentials", "TlsConnection", "ImapConnection", "InvalidMailboxName",
     "ImapFetch", "NoEmail", "NoBody", "InvalidBody", "ParseFailure", "NoHeaders"}

\* C21: a failure of any startup step (credentials, connection or login, select,
\* search, a fetch, a parse) makes Tui::new return that error: no navigation
\* state exists, the terminal is untouched, nothing is rendered, no event is
\* read, and nothing happens afterwards; a Tui exists only when every request
\* succeeded and no error was returned.
C21_StartupErrorsFatal ==
    [][/\ pc # "new_failed"
       /\ (Starting /\ sent' # sent /\ sent'[Len(sent')].res # "ok") =>
            (pc' = "new_failed" /\ err' = Some(sent'[Len(sent')].res))
       /\ (Starting /\ err' # None) =>
            /\ pc' = "new_failed"
            /\ err'[1] \in StartupErrors
            /\ emails' = <<>>
            /\ ~running'
            /\ terminal' = "cooked"
            /\ steps' = <<>>
            /\ frame' = <<>>
       /\ (Starting /\ pc' = "ready") =>
            (err' = None /\ \A i \in DOMAIN sent' : sent'[i].res = "ok")]_vars

\* Reached: two messages were fetched, the parse of one failed with NoHeaders and
\* Tui::new returned that error.
C21_Witness ==
    /\ pc = "new_failed"
    /\ err = Some("NoHeaders")
    /\ Len(FetchRequests) = 2
    /\ steps = <<>>

\* The events that are no key events.
NonKeyEvents == {ev \in Events : ev.type # "Key"}

\* C22: whenever the loop waits for an event, in every mode and with or without
\* an active draft field, a focus, mouse, paste or resize event leaves mode,
\* draft, active field, cursor, opened and running as they are and the loop goes
\* on to its next render; after such an event the next step is a render.
C22_NonKeyEventsChangeNothing ==
    /\ pc = "read" =>
         \A ev \in NonKeyEvents :
           /\ handle_key_events(ev) = Nav
           /\ while_running(handle_key_events(ev).running) = "draw"
    /\ ignored => (running /\ frame = <<>> /\ pc \in {"draw", "run_failed", "panicked"})

\* Reached: an event that is no key event was read while the body field was
\* active and held text, and the render that follows it is due.
C22_Witness ==
    /\ ignored
    /\ pc = "draw"
    /\ FieldActive
    /\ mode.writer.state = "Body"
    /\ mode.writer.body.value # <<>>

Max(a, b) == IF a > b THEN a ELSE b

\* C23: whenever the loop waits for an event in Reading, j moves the cursor to
\* min(cursor + 1, len - 1) and k to max(cursor - 1, 0), changing nothing else:
\* the cursor stops at both ends and never wraps; on an empty list both keys
\* leave the cursor where it is and the application keeps running.
C23_CursorMovesSaturate ==
    (pc = "read" /\ mode = Reading) =>
      /\ handle_key_events(KeyChar("j"))
           = [Nav EXCEPT !.current_id = IF emails = <<>> THEN current_id
                                        ELSE Min(current_id + 1, Len(emails) - 1)]
      /\ handle_key_events(KeyChar("k"))
           = [Nav EXCEPT !.current_id = Max(current_id - 1, 0)]
      /\ handle_key_events(KeyChar("j")).running
      /\ handle_key_events(KeyChar("k")).running
      /\ emails = <<>> =>
           (handle_key_events(KeyChar("j")) = Nav /\ handle_key_events(KeyChar("k")) = Nav)

\* Reached: j moved the cursor to the second message, l opened it, and k moved
\* the cursor back to the first, where the loop waits for the next event.
C23_Witness ==
    /\ pc = "read"
    /\ mode = Reading
    /\ open_email_id = Some(1)
    /\ current_id = 0

\* The field the key activates in a draft with no field active.
FieldOfKey(c) == IF c = "t" THEN "To" ELSE IF c = "s" THEN "Subject" ELSE "Body"

\* C24: whenever the loop waits for an event in Writing: with no field active t,
\* s, b make recipients, subject, body the active field and change nothing else;
\* with a field active Esc makes no field active, keeps the mode Writing and the
\* draft texts as they are; and no event at all takes the active field from one
\* field to another directly.
C24_FieldActivation ==
    (pc = "read" /\ IsWriting) =>
      /\ ~FieldActive =>
           \A c \in {"t", "s", "b"} :
             handle_key_events(KeyChar(c))
               = [Nav EXCEPT !.mode = Writing([mode.writer EXCEPT !.state = FieldOfKey(c)])]
      /\ FieldActive =>
           handle_key_events(Key("Esc"))
             = [Nav EXCEPT !.mode = Writing([mode.writer EXCEPT !.state = "None"])]
      /\ \A ev \in Events :
           LET after == handle_key_events(ev).mode
           IN (after.tag = "Writing" /\ after.writer.state # mode.writer.state) =>
                (mode.writer.state = "None" \/ after.writer.state = "None")

\* Reached: the subject field was activated and filled, left with Esc, and the
\* recipients field is active now.
C24_Witness ==
    /\ IsWriting
    /\ mode.writer.state = "To"
    /\ mode.writer.subject.value # <<>>
    /\ mode.writer.to.value = <<>>
    /\ pc = "read"

\* The draft `w` with the field `name` replaced by `inp`.
WithField(w, name, inp) ==
    IF name = "To" THEN [w EXCEPT !.to = inp]
    ELSE IF name = "Subject" THEN [w EXCEPT !.subject = inp]
    ELSE [w EXCEPT !.body = inp]

\* C25: whenever the loop waits for an event with a draft field active, every key
\* other than Esc is handed to that field's editor and to nothing else: the other
\* two fields, the active field, the mode, the cursor, the opened message and the
\* running flag stay as they are, and each character key, the bound ones m, r, w,
\* q, t, s, b, j, k, l, h included, is inserted in the field's text at the edit
\* cursor.
C25_KeysGoToActiveField ==
    (pc = "read" /\ FieldActive) =>
      \A ev \in Events :
        (ev.type = "Key" /\ ev.code # "Esc") =>
          LET w     == mode.writer
              field == Field(w, w.state)
          IN /\ handle_key_events(ev)
                  = [Nav EXCEPT !.mode = Writing(WithField(w, w.state, handle_event(field, ev)))]
             /\ ev.code = "Char" =>
                  /\ Len(handle_event(field, ev).value) = Len(field.value) + 1
                  /\ handle_event(field, ev).value[field.cursor + 1] = ev.ch

\* Reached: the body field is active and holds the typed text "qm", the keys that
\* would quit and show the help, the other two fields are empty, and the loop
\* still runs in Writing.
C25_Witness ==
    /\ pc = "read"
    /\ running
    /\ IsWriting
    /\ mode.writer.state = "Body"
    /\ mode.writer.body.value = <<"q", "m">>
    /\ mode.writer.to.value = <<>>
    /\ mode.writer.subject.value = <<>>

\* C26: once Tui::new has returned the Tui, that is before the first frame is
\* rendered and for as long as the loop runs and after it, no step sends a
\* request to the server: the requests sent, the last response received and the
\* session stay as the initial load left them.
C26_RequestsBeforeFirstRender ==
    [][TuiExists => UNCHANGED <<sent, response, session>>]_vars

\* Reached: two messages were fetched by the initial load, and the loop has
\* rendered, read an event and rendered again.
C26_Witness ==
    /\ pc = "read"
    /\ steps = <<"read", "render">>
    /\ Len(FetchRequests) = 2
    /\ Len(emails) = 2

\* C27: from the moment Tui::new has returned the Tui, through every event the
\* loop handles and up to its exit, the message list is the one the initial load
\* built: no step changes its length, its order or its contents, and its uids
\* stay strictly descending.
C27_MessageListFixed ==
    /\ [](TuiExists => StrictlyDescending([i \in DOMAIN emails |-> emails[i].uid]))
    /\ [][TuiExists => emails' = emails]_vars

\* Reached: with two messages loaded the second one is opened, the reader was
\* left for a draft and entered again, and the loop waits for the next event.
C27_Witness ==
    /\ pc = "read"
    /\ Len(emails) = 2
    /\ mode = Reading
    /\ open_email_id = Some(1)
    /\ discarded

\* C28: the opened message changes in two steps only, both of them an event
\* handled in Reading: l, which sets it to the message under the cursor, and h,
\* which sets it to none. So a message opened at cursor position c stays the
\* opened one while j and k move the cursor, while the mode changes and while a
\* draft is edited.
C28_OpenedChangesOnlyOnLH ==
    [][open_email_id' # open_email_id =>
         /\ pc = "read"
         /\ mode = Reading
         /\ \/ HandleEvent(KeyChar("l")) /\ open_email_id' = Some(current_id)
            \/ HandleEvent(KeyChar("h")) /\ open_email_id' = None]_vars

\* Reached: the message at position 1 was opened, the cursor went back to 0, and
\* the user is editing the subject of a draft.
C28_Witness ==
    /\ pc = "read"
    /\ open_email_id = Some(1)
    /\ current_id = 0
    /\ IsWriting
    /\ mode.writer.state = "Subject"
    /\ mode.writer.subject.value # <<>>

\* A message of the list lacks the Subject or the Date header.
FieldProblem ==
    \E i \in DOMAIN emails : emails[i].subject = "absent" \/ emails[i].date = "absent"

\* C29: a problem confined to one header of one message of the list does not make
\* a render fail: when the Reading view is about to be drawn over a list with a
\* message lacking Subject or Date, the draw succeeds and the message list shows
\* one item for every message; and no render ever ends with a MissingHeader or
\* InvalidHeaderType error or panic, so the loop goes on to read the next event.
C29_FieldProblemsAbsorbed ==
    /\ (pc = "draw" /\ mode = Reading /\ FieldProblem /\ open_email_id = None) =>
         /\ draw_tui.ok
         /\ Len(draw_tui.val[1].items) = Len(emails)
    /\ pc \in {"panicked", "run_failed"} =>
         err \notin {Some("MissingHeader"), Some("InvalidHeaderType")}

\* The I/O errors of the loop: reading the event, drawing the frame.
IoErrors == {Some("IoKeyboard"), Some("Drawing")}

\* C30: a step in which reading the event or drawing the frame fails with an I/O
\* error ends run() with that error: the navigation state, the message list and
\* the record of renders and reads are left as they were, and once run() has
\* returned the error no step follows, neither a render nor a read.
C30_IoErrorsFatal ==
    /\ [][(err' # err /\ err' \in IoErrors) =>
            /\ pc \in {"read", "draw"}
            /\ pc' = "run_failed"
            /\ UNCHANGED <<tui, steps>>]_vars
    /\ [][pc = "run_failed" => UNCHANGED vars]_vars
    /\ [](pc = "run_failed" => err \in IoErrors)

\* Reached: after a render, a read and a render, reading the next event failed
\* while the user was typing the subject of a draft; the draft is as it was.
C30_Witness ==
    /\ pc = "run_failed"
    /\ err = Some("IoKeyboard")
    /\ steps = <<"read", "render">>
    /\ IsWriting
    /\ mode.writer.state = "Subject"
    /\ mode.writer.subject.value # <<>>
    /\ running

(***************************************************************************)
(* Properties of the terminal, the opened message, the cursor and quitting *)
(* (Spec, SpecQuit).                                                       *)
(***************************************************************************)
\* C31: the terminal is in its initial mode until run() starts, in raw mode while
\* the loop runs, and restored once run() is over, whichever way it ended: by q,
\* by an I/O error on reading the event, by a drawing error.
C31_TerminalRestoredOnEveryExit ==
    /\ (Starting \/ pc \in {"new_failed", "ready"}) => terminal = "cooked"
    /\ pc \in {"draw", "read"} => terminal = "raw"
    /\ LoopExited => terminal = "restored"

\* C32: the opened message, when there is one, is a position of the message list,
\* so that the render never indexes the list out of bounds, an empty list on
\* which l was pressed in Reading included.
C32_OpenedInBounds ==
    /\ (TuiExists /\ open_email_id # None) => open_email_id[1] < Len(emails)
    /\ ~(pc = "panicked" /\ err = Some("IndexOutOfBounds"))

\* The keys that move the cursor, and those that open and close a message.
MoveKeys == {KeyChar("j"), KeyChar("k")}

OpenKeys == {KeyChar("l"), KeyChar("h")}

\* C33: the cursor changes in one kind of step only, j or k handled in Reading.
\* Whenever the loop waits for an event: no event other than j or k in Reading
\* changes the cursor; in Help and in Writing, with a field active or not, j, k, l
\* and h change neither the cursor nor the opened message; and m, r, w leave the
\* cursor where it is in every mode.
C33_CursorChangesOnlyOnJK ==
    /\ [](pc = "read" =>
            /\ \A ev \in Events :
                 handle_key_events(ev).current_id # current_id =>
                   (mode = Reading /\ ev \in MoveKeys)
            /\ mode # Reading =>
                 \A ev \in MoveKeys \cup OpenKeys :
                   /\ handle_key_events(ev).current_id = current_id
                   /\ handle_key_events(ev).open_email_id = open_email_id
            /\ \A c \in {"m", "r", "w"} :
                 handle_key_events(KeyChar(c)).current_id = current_id)
    /\ [][current_id' # current_id =>
            /\ pc = "read"
            /\ mode = Reading
            /\ \E ev \in MoveKeys : HandleEvent(ev)]_vars

\* Reached: the cursor was moved to position 1 and the message at position 0 is
\* open; the user then left Reading for the Help page, where the loop waits for
\* the next event with cursor and opened message as they were.
C33_Witness ==
    /\ pc = "read"
    /\ mode = Help
    /\ current_id = 1
    /\ open_email_id = Some(0)
    /\ steps = <<"read", "render">>

\* C34: the user can always quit. Whenever the loop waits for an event: with no
\* draft field capturing text, q can be read and ends the loop, run() restoring
\* the terminal and returning; with a field capturing, Esc can be read and leaves
\* the loop running in Writing with no field capturing, the render that follows
\* cannot fail on its own (the Writing page has no fallible part) and leads back
\* to the wait for an event, where q ends the loop. So at most two key events end
\* the loop as long as no read and no draw fails.
C34_UserCanQuit ==
    /\ [](pc = "read" =>
            /\ running
            /\ ~FieldActive =>
                 /\ ENABLED HandleEvent(KeyChar("q"))
                 /\ ~handle_key_events(KeyChar("q")).running
            /\ FieldActive =>
                 /\ ENABLED HandleEvent(Key("Esc"))
                 /\ handle_key_events(Key("Esc")).running
                 /\ handle_key_events(Key("Esc")).mode.tag = "Writing"
                 /\ handle_key_events(Key("Esc")).mode.writer.state = "None")
    /\ [](pc = "draw" /\ IsWriting => draw_tui.ok)
    /\ [][(HandleEvent(KeyChar("q")) /\ ~FieldActive) =>
            (pc' = "done" /\ ~running' /\ terminal' = "restored")]_vars
    /\ [][(HandleEvent(Key("Esc")) /\ FieldActive) =>
            (pc' = "draw" /\ mode'.tag = "Writing" /\ mode'.writer.state = "None")]_vars
    /\ [][(Draw /\ IsWriting) => (pc' = "read" /\ mode' = mode)]_vars

\* Reached: the user typed into the body of a draft, left the field with Esc and
\* pressed q; the loop is over and the terminal restored.
C34_Witness ==
    /\ pc = "done"
    /\ ~running
    /\ terminal = "restored"
    /\ IsWriting
    /\ mode.writer.state = "None"
    /\ mode.writer.body.value # <<>>
    /\ steps = <<"render", "read">>

====
